---------------------------- MODULE Spec2Model ----------------------------
(***************************************************************************)
(* Model of jhash() from src/src/jhash.c (Bob Jenkins' lookup3 as adapted  *)
(* for the Linux kernel).                                                  *)
(*                                                                         *)
(* A u32 is modelled by its two 16-bit halves <<hi, lo>>, so that every    *)
(* intermediate of the model's arithmetic stays below 2^31; the value is   *)
(* hi * 2^16 + lo and every operator below reduces its result modulo 2^32  *)
(* exactly where the C arithmetic on uint32_t does.                        *)
(***************************************************************************)
EXTENDS Integers, Sequences, FiniteSets, Bags, TLC

VARIABLES
    key,        \* the bytes k points into (const u8 *key), a sequence of 0..255
    misaligned, \* TRUE when the address of key is not a multiple of 4
    bigEndian,  \* byte order of the CPU the build targets (fixed per build)
    initval,    \* parameter initval
    length,     \* parameter length, decremented by the bulk loop
    k,          \* offset of the cursor k from key
    a, b, c,    \* the three working registers
    cs,         \* the case label the tail switch is at
    pc,         \* position in jhash: entry, loop, case, final, break, done, fault
    ret,        \* the value returned by the last completed call
    \* history (not program state)
    iters,      \* bulk-loop iterations of the current call
    finals,     \* applications of __jhash_final in the current call
    reads,      \* bag of the byte indices read by the current call
    key0,       \* contents of the key buffer when the current call was made
    tail0,      \* <<a, b, c, length>> on entry to the switch
    premix,     \* <<a, b, c>> right before the last __jhash_mix
    memo,       \* set of <<key, initval, ret>> of the completed calls
    calls       \* number of calls made

vars == <<key, misaligned, bigEndian, initval, length, k, a, b, c, cs, pc, ret,
          iters, finals, reads, key0, tail0, premix, memo, calls>>

-----------------------------------------------------------------------------
(* 32-bit unsigned arithmetic (typedef uint32_t u32, line 35)              *)

HalfMod == 65536

U32 == (0 .. HalfMod - 1) \X (0 .. HalfMod - 1)

IsU32(w) == /\ w[1] \in 0 .. HalfMod - 1
            /\ w[2] \in 0 .. HalfMod - 1

\* the u32 of a natural number below 2^31
FromNat(n) == <<(n \div HalfMod) % HalfMod, n % HalfMod>>

RECURSIVE Pow2(_)
Pow2(n) == IF n = 0 THEN 1 ELSE 2 * Pow2(n - 1)

RECURSIVE XorBits(_, _, _)
XorBits(x, y, n) ==
    IF n = 0 THEN 0
    ELSE (((x % 2) + (y % 2)) % 2) + 2 * XorBits(x \div 2, y \div 2, n - 1)

RECURSIVE OrBits(_, _, _)
OrBits(x, y, n) ==
    IF n = 0 THEN 0
    ELSE (IF x % 2 = 1 \/ y % 2 = 1 THEN 1 ELSE 0)
         + 2 * OrBits(x \div 2, y \div 2, n - 1)

\* x ^ y
Xor32(x, y) == <<XorBits(x[1], y[1], 16), XorBits(x[2], y[2], 16)>>

\* x | y
Or32(x, y) == <<OrBits(x[1], y[1], 16), OrBits(x[2], y[2], 16)>>

\* x + y on u32: the carry out of bit 31 is dropped
Add32(x, y) ==
    LET lo == x[2] + y[2]
        hi == x[1] + y[1] + (lo \div HalfMod)
    IN  <<hi % HalfMod, lo % HalfMod>>

\* x - y on u32: wraps below zero
Sub32(x, y) ==
    LET lo == x[2] - y[2]
        borrow == IF lo < 0 THEN 1 ELSE 0
        hi == x[1] - y[1] - borrow
    IN  <<(hi + HalfMod) % HalfMod, (lo + HalfMod) % HalfMod>>

\* w << s on u32, 0 <= s <= 31: the bits shifted out are lost
Shl32(w, s) ==
    IF s >= 16
    THEN <<(w[2] % Pow2(32 - s)) * Pow2(s - 16), 0>>
    ELSE <<(w[1] % Pow2(16 - s)) * Pow2(s) + (w[2] \div Pow2(16 - s)),
           (w[2] % Pow2(16 - s)) * Pow2(s)>>

\* w >> s on u32, 0 <= s <= 31
Shr32(w, s) ==
    IF s >= 16
    THEN <<0, w[1] \div Pow2(s - 16)>>
    ELSE <<w[1] \div Pow2(s),
           (w[1] % Pow2(s)) * Pow2(16 - s) + (w[2] \div Pow2(s))>>

\* rol32: (word << shift) | (word >> ((-shift) & 31))
rol32(word, shift) == Or32(Shl32(word, shift), Shr32(word, (32 - shift) % 32))

\* #define JHASH_INITVAL 0xdeadbeef
JHASH_INITVAL == <<57005, 48879>>

-----------------------------------------------------------------------------
(* The mixing macros, on a triple t = <<a, b, c>>                          *)

\* __jhash_mix with the second rotation by 4 instead of 6
MixRot(t) ==
    LET a1 == Xor32(Sub32(t[1], t[3]), rol32(t[3], 4))
        c1 == Add32(t[3], t[2])
        b1 == Xor32(Sub32(t[2], a1), rol32(a1, 4))
        a2 == Add32(a1, c1)
        c2 == Xor32(Sub32(c1, b1), rol32(b1, 8))
        b2 == Add32(b1, a2)
        a3 == Xor32(Sub32(a2, c2), rol32(c2, 16))
        c3 == Add32(c2, b2)
        b3 == Xor32(Sub32(b2, a3), rol32(a3, 19))
        a4 == Add32(a3, c3)
        c4 == Xor32(Sub32(c3, b3), rol32(b3, 4))
        b4 == Add32(b3, a4)
    IN  <<a4, b4, c4>>

\* __jhash_mix(a, b, c)
Mix(t) ==
    LET a1 == Xor32(Sub32(t[1], t[3]), rol32(t[3], 4))
        c1 == Add32(t[3], t[2])
        b1 == Xor32(Sub32(t[2], a1), rol32(a1, 6))
        a2 == Add32(a1, c1)
        c2 == Xor32(Sub32(c1, b1), rol32(b1, 8))
        b2 == Add32(b1, a2)
        a3 == Xor32(Sub32(a2, c2), rol32(c2, 16))
        c3 == Add32(c2, b2)
        b3 == Xor32(Sub32(b2, a3), rol32(a3, 19))
        a4 == Add32(a3, c3)
        c4 == Xor32(Sub32(c3, b3), rol32(b3, 4))
        b4 == Add32(b3, a4)
    IN  <<a4, b4, c4>>

\* __jhash_final(a, b, c)
Final(t) ==
    LET c1 == Sub32(Xor32(t[3], t[2]), rol32(t[2], 14))
        a1 == Sub32(Xor32(t[1], c1), rol32(c1, 11))
        b1 == Sub32(Xor32(t[2], a1), rol32(a1, 25))
        c2 == Sub32(Xor32(c1, b1), rol32(b1, 16))
        a2 == Sub32(Xor32(a1, c2), rol32(c2, 4))
        b2 == Sub32(Xor32(b1, a2), rol32(a2, 14))
        c3 == Sub32(Xor32(c2, b2), rol32(b2, 24))
    IN  <<a2, b2, c3>>

-----------------------------------------------------------------------------
(* Bounds of the model and the inputs it draws                             *)

MaxLen == 37        \* longest key hashed
MaxCalls == 3       \* number of jhash calls one run of SpecCalls makes
MaxMixRounds == 2   \* number of __jhash_mix applications one run of SpecMix makes

ZERO == <<0, 0>>
ALLONES == <<HalfMod - 1, HalfMod - 1>>

\* byte patterns <<m, d>>: byte number i (from 1) of a key is (m * i + d) % 256
Patterns == {<<0, 255>>, <<37, 1>>}

MkKey(n, p) == [i \in 1 .. n |-> (p[1] * i + p[2]) % 256]

Keys == {MkKey(n, p) : n \in 0 .. MaxLen, p \in Patterns}

Seeds == {ZERO, <<0, 1>>, ALLONES}

\* the inputs of the runs that make several calls
CallKeys == {MkKey(n, p) : n \in {0, 1, 12, 13, 24, MaxLen}, p \in {<<37, 1>>}}

CallSeeds == {ZERO, ALLONES}

MixSamples == {ZERO, <<0, 1>>, ALLONES, <<32768, 0>>, JHASH_INITVAL}

NoTriple == <<ZERO, ZERO, ZERO>>

-----------------------------------------------------------------------------
(* jhash(key, length, initval), lines 91-129                               *)

\* k[i] relative to the start of the key.  No execution of jhash reads past
\* the key (checked below through reads); the value given to such a read
\* only keeps the operator total.
ByteAt(i) == IF i < Len(key) THEN key[i + 1] ELSE 0

\* __get_unaligned_cpu32(key + off): four consecutive bytes in CPU byte order
GetUnalignedCpu32(off) ==
    LET b0 == ByteAt(off)
        b1 == ByteAt(off + 1)
        b2 == ByteAt(off + 2)
        b3 == ByteAt(off + 3)
    IN  IF bigEndian
        THEN <<b0 * 256 + b1, b2 * 256 + b3>>
        ELSE <<b3 * 256 + b2, b1 * 256 + b0>>

\* a = b = c = JHASH_INITVAL + length + initval, dropping the carry of the
\* high half instead of reducing it
SetUpStateNoWrap(len, iv) ==
    LET lo == JHASH_INITVAL[2] + (len % HalfMod) + iv[2]
        hi == JHASH_INITVAL[1] + (len \div HalfMod) + iv[1] + (lo \div HalfMod)
    IN  <<hi, lo % HalfMod>>

\* the set-up adding into the register left by the previous call
SetUpStateStale(len, iv) == Add32(Add32(Add32(JHASH_INITVAL, FromNat(len)), iv), c)

\* a = b = c = JHASH_INITVAL + length + initval
SetUpState(len, iv) == Add32(Add32(JHASH_INITVAL, FromNat(len)), iv)

\* the loop test written length >= 12
LoopCondGe(len) == len >= 12

\* while (length > 12)
LoopCond(len) == len > 12

\* the switch with case 9 shifting its byte by 8
CaseTableShiftBug ==
    << [reg |-> 1, idx |-> 0,  sh |-> 0],  [reg |-> 1, idx |-> 1,  sh |-> 8],
       [reg |-> 1, idx |-> 2,  sh |-> 16], [reg |-> 1, idx |-> 3,  sh |-> 24],
       [reg |-> 2, idx |-> 4,  sh |-> 0],  [reg |-> 2, idx |-> 5,  sh |-> 8],
       [reg |-> 2, idx |-> 6,  sh |-> 16], [reg |-> 2, idx |-> 7,  sh |-> 24],
       [reg |-> 3, idx |-> 8,  sh |-> 8],  [reg |-> 3, idx |-> 9,  sh |-> 8],
       [reg |-> 3, idx |-> 10, sh |-> 16], [reg |-> 3, idx |-> 11, sh |-> 24] >>

\* the switch with case 12 reading k[12]
CaseTableIndexBug ==
    << [reg |-> 1, idx |-> 0,  sh |-> 0],  [reg |-> 1, idx |-> 1,  sh |-> 8],
       [reg |-> 1, idx |-> 2,  sh |-> 16], [reg |-> 1, idx |-> 3,  sh |-> 24],
       [reg |-> 2, idx |-> 4,  sh |-> 0],  [reg |-> 2, idx |-> 5,  sh |-> 8],
       [reg |-> 2, idx |-> 6,  sh |-> 16], [reg |-> 2, idx |-> 7,  sh |-> 24],
       [reg |-> 3, idx |-> 8,  sh |-> 0],  [reg |-> 3, idx |-> 9,  sh |-> 8],
       [reg |-> 3, idx |-> 10, sh |-> 16], [reg |-> 3, idx |-> 12, sh |-> 24] >>

\* The statements of the switch, lines 111-122, indexed by case label:
\* case n adds (u32)k[idx] << sh into register reg (1 = a, 2 = b, 3 = c).
CaseTable ==
    << [reg |-> 1, idx |-> 0,  sh |-> 0],     \* case 1:  a += k[0]
       [reg |-> 1, idx |-> 1,  sh |-> 8],     \* case 2:  a += (u32)k[1]<<8
       [reg |-> 1, idx |-> 2,  sh |-> 16],    \* case 3:  a += (u32)k[2]<<16
       [reg |-> 1, idx |-> 3,  sh |-> 24],    \* case 4:  a += (u32)k[3]<<24
       [reg |-> 2, idx |-> 4,  sh |-> 0],     \* case 5:  b += k[4]
       [reg |-> 2, idx |-> 5,  sh |-> 8],     \* case 6:  b += (u32)k[5]<<8
       [reg |-> 2, idx |-> 6,  sh |-> 16],    \* case 7:  b += (u32)k[6]<<16
       [reg |-> 2, idx |-> 7,  sh |-> 24],    \* case 8:  b += (u32)k[7]<<24
       [reg |-> 3, idx |-> 8,  sh |-> 0],     \* case 9:  c += k[8]
       [reg |-> 3, idx |-> 9,  sh |-> 8],     \* case 10: c += (u32)k[9]<<8
       [reg |-> 3, idx |-> 10, sh |-> 16],    \* case 11: c += (u32)k[10]<<16
       [reg |-> 3, idx |-> 11, sh |-> 24] >>  \* case 12: c += (u32)k[11]<<24

\* the switch with __jhash_final placed under case 0
SwitchTargetFinalAtZero(len) ==
    IF len = 0 THEN "final" ELSE IF len <= 12 THEN "case" ELSE "break"

\* the switch without its case 12 label
SwitchTargetNoCase12(len) ==
    IF len = 0 THEN "break" ELSE IF len < 12 THEN "case" ELSE "break"

\* switch (length): case 0 is the break, cases 1..12 enter the fall-through
\* chain, and any other value matches no label and skips the statement
SwitchTarget(len) ==
    IF len = 0 THEN "break" ELSE IF len <= 12 THEN "case" ELSE "break"

\* the return statement returning b
RetValB(t) == t[2]

\* return c
RetVal(t) == t[3]

\* one statement of the switch: register e.reg += (u32)k[e.idx] << e.sh
Absorb(t, e) ==
    LET w == Shl32(<<0, ByteAt(k + e.idx)>>, e.sh)
    IN  [t EXCEPT ![e.reg] = Add32(t[e.reg], w)]

-----------------------------------------------------------------------------
(* The steps of one call                                                   *)

\* line 97: set up the internal state
SetUp ==
    /\ pc = "entry"
    /\ a' = SetUpState(length, initval)
    /\ b' = a'
    /\ c' = a'
    /\ pc' = "loop"
    /\ UNCHANGED <<key, misaligned, bigEndian, initval, length, k, cs, ret,
                   iters, finals, reads, key0, tail0, premix, memo, calls>>

\* lines 100-107: one iteration of the bulk loop.  length > 12 on entry, so
\* length -= 12 does not wrap.
LoopIter ==
    /\ pc = "loop"
    /\ LoopCond(length)
    /\ LET t == <<Add32(a, GetUnalignedCpu32(k)),
                  Add32(b, GetUnalignedCpu32(k + 4)),
                  Add32(c, GetUnalignedCpu32(k + 8))>>
           m == Mix(t)
       IN  /\ premix' = t
           /\ a' = m[1]
           /\ b' = m[2]
           /\ c' = m[3]
    /\ length' = length - 12
    /\ k' = k + 12
    /\ reads' = reads (+) SetToBag(k .. k + 11)
    /\ iters' = iters + 1
    /\ UNCHANGED <<key, misaligned, bigEndian, initval, cs, pc, ret,
                   finals, key0, tail0, memo, calls>>

\* lines 38-43, 101-103: struct __una_u32 is declared with a trailing
\* __packed, which no header of this file defines as an attribute, so the
\* declaration is an object named __packed of an ordinary struct whose
\* alignment is that of u32.  Reading key + k through it when the address is
\* not a multiple of 4 is undefined; the builds either perform the load
\* (LoopIter) or trap on it.
Fault ==
    /\ pc = "loop"
    /\ LoopCond(length)
    /\ misaligned
    /\ pc' = "fault"
    /\ UNCHANGED <<key, misaligned, bigEndian, initval, length, k, a, b, c, cs,
                   ret, iters, finals, reads, key0, tail0, premix, memo, calls>>

\* line 110: the loop test fails and switch (length) jumps to its label
Switch ==
    /\ pc = "loop"
    /\ ~LoopCond(length)
    /\ pc' = SwitchTarget(length)
    /\ cs' = length
    /\ tail0' = <<a, b, c, length>>
    /\ UNCHANGED <<key, misaligned, bigEndian, initval, length, k, a, b, c, ret,
                   iters, finals, reads, key0, premix, memo, calls>>

\* lines 111-122: the statement under case cs, falling through to case cs - 1;
\* after case 1 comes __jhash_final
CaseStep ==
    /\ pc = "case"
    /\ cs \in 1 .. 12
    /\ LET e == CaseTable[cs]
           t == Absorb(<<a, b, c>>, e)
       IN  /\ a' = t[1]
           /\ b' = t[2]
           /\ c' = t[3]
           /\ reads' = reads (+) SetToBag({k + e.idx})
    /\ cs' = cs - 1
    /\ pc' = IF cs = 1 THEN "final" ELSE "case"
    /\ UNCHANGED <<key, misaligned, bigEndian, initval, length, k, ret,
                   iters, finals, key0, tail0, premix, memo, calls>>

\* line 123: __jhash_final(a, b, c), then fall through to case 0
FinalStep ==
    /\ pc = "final"
    /\ LET t == Final(<<a, b, c>>)
       IN  /\ a' = t[1]
           /\ b' = t[2]
           /\ c' = t[3]
    /\ finals' = finals + 1
    /\ pc' = "break"
    /\ UNCHANGED <<key, misaligned, bigEndian, initval, length, k, cs, ret,
                   iters, reads, key0, tail0, premix, memo, calls>>

\* lines 124-128: break; return c
Return ==
    /\ pc = "break"
    /\ ret' = RetVal(<<a, b, c>>)
    /\ memo' = memo \cup {<<key, initval, ret'>>}
    /\ pc' = "done"
    /\ UNCHANGED <<key, misaligned, bigEndian, initval, length, k, a, b, c, cs,
                   iters, finals, reads, key0, tail0, premix, calls>>

\* A caller makes a further call (lines 84, 137): on a key and seed hashed
\* before, at any address, or on a new key with the previous hash as initval.
\* a, b and c are fresh locals of the new call: they hold whatever the stack
\* holds and are assigned before they are read.
Call ==
    /\ pc = "done"
    /\ calls < MaxCalls
    /\ \E in \in {<<m[1], m[2]>> : m \in memo} \cup {<<ck, ret>> : ck \in CallKeys} :
         /\ key' = in[1]
         /\ key0' = in[1]
         /\ length' = Len(in[1])
         /\ initval' = in[2]
    /\ misaligned' \in BOOLEAN
    /\ k' = 0
    /\ cs' = 0
    /\ iters' = 0
    /\ finals' = 0
    /\ reads' = EmptyBag
    /\ tail0' = <<ZERO, ZERO, ZERO, 0>>
    /\ premix' = NoTriple
    /\ calls' = calls + 1
    /\ pc' = "entry"
    /\ UNCHANGED <<bigEndian, a, b, c, ret, memo>>

\* the state when jhash is entered with the given inputs
Entered(keys, seeds) ==
    /\ key \in keys
    /\ key0 = key
    /\ length = Len(key)
    /\ initval \in seeds
    /\ misaligned \in BOOLEAN
    /\ bigEndian \in BOOLEAN
    /\ k = 0
    /\ a = ZERO
    /\ b = ZERO
    /\ c = ZERO
    /\ cs = 0
    /\ pc = "entry"
    /\ ret = ZERO
    /\ iters = 0
    /\ finals = 0
    /\ reads = EmptyBag
    /\ tail0 = <<ZERO, ZERO, ZERO, 0>>
    /\ premix = NoTriple
    /\ memo = {}
    /\ calls = 1

\* one call of jhash on any key and seed of the bounded sets
Init == Entered(Keys, Seeds)

Next ==
    \/ SetUp
    \/ LoopIter
    \/ Fault
    \/ Switch
    \/ CaseStep
    \/ FinalStep
    \/ Return

Spec == Init /\ [][Next]_vars

\* a sequence of calls, each either repeating an earlier one or chained
InitCalls == Entered(CallKeys, CallSeeds)

NextCalls ==
    \/ Next
    \/ Call

SpecCalls == InitCalls /\ [][NextCalls]_vars

-----------------------------------------------------------------------------
(* __jhash_mix alone, applied to sample triples                            *)

InitMix ==
    /\ a \in MixSamples
    /\ b \in MixSamples
    /\ c \in MixSamples
    /\ pc = "mix"
    /\ key = <<>>
    /\ key0 = <<>>
    /\ length = 0
    /\ initval = ZERO
    /\ misaligned = FALSE
    /\ bigEndian = FALSE
    /\ k = 0
    /\ cs = 0
    /\ ret = ZERO
    /\ iters = 0
    /\ finals = 0
    /\ reads = EmptyBag
    /\ tail0 = <<ZERO, ZERO, ZERO, 0>>
    /\ premix = NoTriple
    /\ memo = {}
    /\ calls = 0

MixStep ==
    /\ pc = "mix"
    /\ iters < MaxMixRounds
    /\ premix' = <<a, b, c>>
    /\ LET m == Mix(<<a, b, c>>)
       IN  /\ a' = m[1]
           /\ b' = m[2]
           /\ c' = m[3]
    /\ iters' = iters + 1
    /\ UNCHANGED <<key, misaligned, bigEndian, initval, length, k, cs, pc, ret,
                   finals, reads, key0, tail0, memo, calls>>

SpecMix == InitMix /\ [][MixStep]_vars

-----------------------------------------------------------------------------
(* Properties                                                              *)

Returning == pc \in {"break", "done"}

\* the registers and the remainder length on entry to the switch
TailRegs == <<tail0[1], tail0[2], tail0[3]>>
Rem == tail0[4]

\* The loop formulation of the tail absorption:
\* for i in from .. L - 1: word[i div 4] += byte[i] << 8 * (i mod 4)
RECURSIVE TailLoop(_, _, _)
TailLoop(t, from, L) ==
    IF from >= L THEN t
    ELSE TailLoop([t EXCEPT ![(from \div 4) + 1] =
                      Add32(@, Shl32(<<0, ByteAt(k + from)>>, 8 * (from % 4)))],
                  from + 1, L)

\* (0xdeadbeef + len + iv) mod 2^32, half by half
WrapSum(len, iv) ==
    LET lo == 48879 + (len % HalfMod) + iv[2]
        hi == 57005 + (len \div HalfMod) + iv[1] + (lo \div HalfMod)
    IN  <<hi % HalfMod, lo % HalfMod>>

\* ceil(n / 12) - 1 for n >= 1, and 0 for n = 0
ExpectedIters(n) == IF n = 0 THEN 0 ELSE ((n + 11) \div 12) - 1

\* C1: for the empty key, and every seed, jhash runs no loop iteration and
\* no final mix and returns (0xdeadbeef + initval) mod 2^32.
C1_EmptyKey ==
    (Len(key0) = 0 /\ Returning) =>
        /\ iters = 0
        /\ finals = 0
        /\ premix = NoTriple
        /\ c = WrapSum(0, initval)
        /\ (pc = "done" => ret = WrapSum(0, initval))

\* the empty key hashed with seed 0xffffffff returned 0xdeadbeee
C1_Witness ==
    /\ pc = "done"
    /\ Len(key0) = 0
    /\ initval = ALLONES
    /\ ret = <<57005, 48878>>

\* C2: two completed calls on the same key and seed returned the same value,
\* whatever the address of the key and whatever calls (chained ones
\* included) were made before or in between.
C2_Deterministic ==
    \A m1 \in memo : \A m2 \in memo :
        (m1[1] = m2[1] /\ m1[2] = m2[2]) => m1[3] = m2[3]

\* a third call that repeats the first one, after a chained call in between,
\* has returned, and the completed calls gave two results only
C2_Witness ==
    /\ pc = "done"
    /\ calls = 3
    /\ Cardinality(memo) = 2
    /\ initval \in CallSeeds
    /\ \E m \in memo : m[2] \notin CallSeeds
    /\ <<key, initval, ret>> \in memo

\* C3: jhash is total: no call ends in an error, the loop runs
\* ceil(n / 12) - 1 times (0 times for n = 0), taking 12 off the remaining
\* length each time, and the value returned is a 32-bit value.
C3_TotalNoError ==
    /\ pc # "fault"
    /\ (pc = "loop" => length = Len(key0) - 12 * iters)
    /\ (Returning => iters = ExpectedIters(Len(key0)))
    /\ (pc = "done" => IsU32(ret))

\* The part of the above that does not depend on the address of the key:
\* every call that is not stopped by a misaligned load makes the stated
\* number of iterations and returns a 32-bit value.
LoopIterations ==
    /\ (pc = "loop" => length = Len(key0) - 12 * iters)
    /\ (Returning => iters = ExpectedIters(Len(key0)))
    /\ (pc = "done" => IsU32(ret))
    /\ (pc = "fault" => misaligned /\ Len(key0) > 12)

\* C4: a key of length 12 never enters the bulk loop: no iteration and no
\* __jhash_mix, the switch is entered at case 12 and absorbs all 12 bytes,
\* and __jhash_final runs exactly once before c is returned.
C4_Length12 ==
    (Len(key0) = 12) =>
        /\ pc # "fault"
        /\ iters = 0
        /\ premix = NoTriple
        /\ (pc \in {"case", "final"} \cup {"break", "done"} => Rem = 12)
        /\ (pc = "final" => reads = SetToBag(0 .. 11) /\ finals = 0)
        /\ (Returning => reads = SetToBag(0 .. 11) /\ finals = 1)
        /\ (pc = "done" => ret = c)

\* a 12-byte key was hashed by the tail alone
C4_Witness ==
    /\ pc = "done"
    /\ Len(key0) = 12
    /\ Rem = 12
    /\ finals = 1
    /\ iters = 0

\* C5: the final mix is skipped exactly when the remainder is 0, which
\* happens only for a key whose length is a multiple of 12; for a remainder
\* of 1..12 the final mix is applied after the tail absorption and the c it
\* leaves is returned.
C5_FinalSkippedIffRemainderZero ==
    Returning =>
        /\ Rem \in 0 .. 12
        /\ (finals = 0 <=> Rem = 0)
        /\ (Rem = 0 => Len(key0) % 12 = 0)
        /\ (Rem \in 1 .. 12 =>
               /\ finals = 1
               /\ c = Final(TailLoop(TailRegs, 0, Rem))[3])
        /\ (pc = "done" => ret = c)

\* a 17-byte key: one loop iteration, remainder 5, final mix applied
C5_Witness ==
    /\ pc = "done"
    /\ Len(key0) = 17
    /\ Rem = 5
    /\ finals = 1
    /\ ret = c

\* C6: with remainder L, the fall-through switch has added, when it reaches
\* case cs, exactly the bytes cs .. L - 1 of the remainder, byte i into word
\* i div 4 shifted by 8 * (i mod 4); before the final mix (cs = 0) the
\* registers equal those of the loop over i = 0 .. L - 1, and no byte of
\* index >= L has been read.
C6_TailSwitchIsLoop ==
    (pc \in {"case", "final"}) =>
        /\ Rem \in 1 .. 12
        /\ (pc = "final" => cs = 0)
        /\ <<a, b, c>> = TailLoop(TailRegs, cs, Rem)
        /\ {i \in BagToSet(reads) : i >= k} = {k + i : i \in cs .. Rem - 1}

\* the switch absorbed an 11-byte remainder after one loop iteration
C6_Witness ==
    /\ pc = "final"
    /\ Rem = 11
    /\ iters = 1
    /\ <<a, b, c>> # TailRegs

\* C7: all arithmetic is modulo 2^32: the registers and the result are
\* 32-bit values in every state, and the initial state is
\* (0xdeadbeef + length + initval) mod 2^32.
C7_Modulo32 ==
    /\ IsU32(a)
    /\ IsU32(b)
    /\ IsU32(c)
    /\ IsU32(ret)
    /\ ((pc = "loop" /\ iters = 0) =>
           /\ a = WrapSum(Len(key0), initval)
           /\ b = a
           /\ c = a)

\* 0xdeadbeef + 13 + 0xffffffff wrapped to 0xdeadbefb
C7_Witness ==
    /\ pc = "loop"
    /\ iters = 0
    /\ Len(key0) = 13
    /\ initval = ALLONES
    /\ a = <<57005, 48891>>

\* the inverse of __jhash_mix: its statements undone from the last to the first
MixInv(t) ==
    LET b3 == Sub32(t[2], t[1])
        c3 == Add32(Xor32(t[3], rol32(b3, 4)), b3)
        a3 == Sub32(t[1], c3)
        b2 == Add32(Xor32(b3, rol32(a3, 19)), a3)
        c2 == Sub32(c3, b2)
        a2 == Add32(Xor32(a3, rol32(c2, 16)), c2)
        b1 == Sub32(b2, a2)
        c1 == Add32(Xor32(c2, rol32(b1, 8)), b1)
        a1 == Sub32(a2, c1)
        b0 == Add32(Xor32(b1, rol32(a1, 6)), a1)
        c0 == Sub32(c1, b0)
        a0 == Add32(Xor32(a1, rol32(c0, 4)), c0)
    IN  <<a0, b0, c0>>

\* C8: __jhash_mix is reversible: MixInv recovers the triple it was applied
\* to from the triple it produced.
C8_MixReversible ==
    (pc = "mix" /\ iters > 0) => MixInv(<<a, b, c>>) = premix

\* the mix was applied twice, starting from a triple it changes
C8_Witness ==
    /\ pc = "mix"
    /\ iters = 2
    /\ premix # NoTriple
    /\ <<a, b, c>> # premix

\* C9: for a non-empty key the remainder at the end of the loop is in 1..12,
\* so the final mix runs exactly once, as the last step before c is
\* returned, and it is skipped only for the empty key; a key of 12 * m bytes
\* (m >= 1) leaves its last 12 bytes to the switch.
C9_FinalOnceUnlessEmpty ==
    /\ finals <= 1
    /\ (pc \in {"entry", "loop", "case", "final"} => finals = 0)
    /\ (Returning =>
           /\ (Len(key0) >= 1 => Rem \in 1 .. 12 /\ finals = 1)
           /\ (finals = 0 <=> Len(key0) = 0)
           /\ ((Len(key0) >= 1 /\ Len(key0) % 12 = 0) =>
                  /\ Rem = 12
                  /\ k = Len(key0) - 12)
           /\ (pc = "done" => ret = c))

\* a 24-byte key: one loop iteration, then the last 12 bytes in the switch
C9_Witness ==
    /\ pc = "done"
    /\ Len(key0) = 24
    /\ iters = 1
    /\ Rem = 12
    /\ k = 12
    /\ finals = 1

\* C10: jhash reads inside the key only and reads each byte once: no index
\* >= n is read, no index is read twice, a call that returns has read every
\* index below n, and the buffer keeps its contents.
C10_ReadsEachByteOnce ==
    /\ key = key0
    /\ \A i \in BagToSet(reads) :
           /\ i \in 0 .. Len(key0) - 1
           /\ CopiesIn(i, reads) = 1
    /\ (Returning => BagToSet(reads) = 0 .. Len(key0) - 1)

\* a 37-byte key was read through: three loop iterations and one tail byte
C10_Witness ==
    /\ pc = "done"
    /\ Len(key0) = 37
    /\ iters = 3
    /\ BagToSet(reads) = 0 .. 36

=============================================================================
